---- MODULE Spec2Model ----
(***************************************************************************)
(* The model download subsystem of CosyVoice_app:                          *)
(*   backend/model_download_service.py  ModelDownloadService (the facade,  *)
(*                                      living in the UI thread)           *)
(*   ui/download_worker.py              ModelDownloadWorker (one QThread    *)
(*                                      per accepted start_download) and    *)
(*                                      the background download_thread it   *)
(*                                      spawns around download_model        *)
(* The worker's signals are connected to slots of the service, a QObject   *)
(* of the UI thread, so every emission is queued to the UI event loop and  *)
(* handled there in emission order: uiQueue.                                *)
(* backend/model_download_manager.py is not part of the source tree; what  *)
(* download_model, get_download_status and cancel_download may do is a     *)
(* nondeterministic choice over the outcomes the worker's code handles.    *)
(* The clock-derived fields of DownloadProgress (speed, eta, start_time)   *)
(* are left out: no decision of the code reads them.                       *)
(***************************************************************************)
EXTENDS Integers, Sequences, FiniteSets, TLC

\* ------------------------------------------------------------- bounds
\* workers ever created (accepted start_download calls)
MaxStarts == 2
\* download sessions registered at the same time
MaxActive == 1
\* the same, in the behaviours with downloads of several models side by side
MaxPairActive == 2
\* accepted start_download calls in the behaviours checked for liveness
MaxFairStarts == 1
\* iterations of the polling loop before it gives up; stands for max_polls = 1200
MaxPolls == 2
\* notifications waiting in the UI event queue; an emitter waits for room
MaxQueue == 3
\* threads that call start_download at the same time
MaxCallers == 2

\* --------------------------------------------------- program constants
\* _init_available_models: the first two of the six catalog entries
available_models == {"cosyvoice3_2512", "cosyvoice2"}
\* model ids callers may pass: the catalog and one id that is not in it
ModelIds == available_models \cup {"unknown_model"}
\* ModelDownloadWorker.run: model_type_map has a key for every catalog id
model_type_map == available_models
max_polls == MaxPolls
\* fake_total = 1024 * 1024 * 1024; fake_current = int(p * 10 * 1024 * 1024)
fake_total == 1073741824
TenMiB == 10485760
\* one simulated step of _update_fake_progress, in whole percent: a model
\* poll stands for many polls of the code, each adding well below 2 percent
FakeIncrements == {45}
\* status.progress as reported by get_download_status, in hundredths
StatusProgress == {50, 100}
\* str(e) of an exception raised by download_model
DownloadErrors == {"No space left on device"}
\* str(e) of an exception raised by get_download_status
StatusError == "status unavailable"
None == "None"

VARIABLES
    _download_manager,   \* None | "set"
    _download_tasks,     \* model_id -> index into workers (dict: partial)
    _download_progress,  \* model_id -> DownloadProgress (dict: partial)
    workers,             \* every ModelDownloadWorker created, in creation order
    uiQueue,             \* queued signal emissions awaiting the UI thread
    manager_cancelled,   \* model types download_manager.cancel_download got
    callers,             \* threads inside start_download, statement by statement
    _path_manager,       \* None | a path manager (PathManagers)
    disk,                \* model_id -> what lies under the model's directory
    last_return          \* what the last call of a service operation gave back

vars == <<_download_manager, _download_tasks, _download_progress, workers,
          uiQueue, manager_cancelled, callers, _path_manager, disk,
          last_return>>

\* the state outside the download sessions
env == <<_path_manager, disk, last_return>>

Min(a, b) == IF a < b THEN a ELSE b

\* ------------------------------------------------------------- records
NewProgress_dataclass_defaults(m) ==
    [model_id |-> m, current |-> 0, total |-> 0, percentage |-> 0,
     status_text |-> "", is_downloading |-> FALSE, error_message |-> ""]

\* DownloadProgress(model_id=model_id, is_downloading=True, ...)
NewProgress(m) ==
    [model_id |-> m, current |-> 0, total |-> 0, percentage |-> 0,
     status_text |-> "", is_downloading |-> TRUE, error_message |-> ""]

\* ModelDownloadWorker.__init__, plus the locals of its run
NewWorker(m) ==
    [model_id |-> m, pc |-> "start", is_cancelled |-> FALSE,
     current_fake_progress |-> 0, poll_count |-> 0,
     thread |-> "none",
     download_result |-> [success |-> FALSE, error |-> None],
     user_cancelled |-> FALSE, success |-> FALSE, download_error |-> None,
     finished_sent |-> FALSE]

\* a worker the service no longer references: nothing reads its attributes
\* again; only its background thread may still be running
Released(wr) == [NewWorker(wr.model_id) EXCEPT !.pc = wr.pc,
                                                 !.thread = wr.thread,
                                                 !.finished_sent = wr.finished_sent]

\* the locals of _download_with_progress are gone once it has returned or
\* raised: poll_count, user_cancelled and the worker's view of download_result
Returned(wr) == [wr EXCEPT !.poll_count = 0, !.user_cancelled = FALSE,
                           !.download_result = [success |-> FALSE, error |-> None]]

Msg(kind, w, cur, tot, pct, ok, text) ==
    [kind |-> kind, worker |-> w, model_id |-> workers[w].model_id,
     current |-> cur, total |-> tot, percentage |-> pct,
     success |-> ok, text |-> text]
\* signals.progress.emit(model_id, current, total, percentage)
ProgressMsg(w, cur, tot, pct) == Msg("progress", w, cur, tot, pct, FALSE, "")
\* signals.finished.emit(model_id, success, error_msg)
FinishedMsg(w, ok, err) == Msg("finished", w, 0, 0, 0, ok, err)
\* signals.status_update.emit(model_id, status_text)
StatusMsg(w, text) == Msg("status_update", w, 0, 0, 0, FALSE, text)

HasRoom(msgs) == Len(uiQueue) + Len(msgs) <= MaxQueue

\* ------------------------------------------------------------- service
get_model_info(m) == IF m \in available_models THEN m ELSE None

\* get_download_progress: the record's fields, or the "Not started" dict
get_download_progress(m) ==
    IF m \notin DOMAIN _download_progress
    THEN [current |-> 0, total |-> 0, percentage |-> 0,
          status_text |-> "Not started", is_downloading |-> FALSE,
          error_message |-> ""]
    ELSE [current |-> _download_progress[m].current,
          total |-> _download_progress[m].total,
          percentage |-> _download_progress[m].percentage,
          status_text |-> _download_progress[m].status_text,
          is_downloading |-> _download_progress[m].is_downloading,
          error_message |-> _download_progress[m].error_message]

set_download_manager ==
    /\ _download_manager = None
    /\ _download_manager' = "set"
    /\ UNCHANGED <<_download_tasks, _download_progress, workers, uiQueue,
                   manager_cancelled, callers, env>>

start_download_rejects_unless_cancelled(m) ==
    \/ /\ m \in DOMAIN _download_tasks
       /\ ~workers[_download_tasks[m]].is_cancelled
    \/ get_model_info(m) = None
    \/ _download_manager = None

start_download_rejects_progress_record(m) ==
    \/ m \in DOMAIN _download_progress
    \/ get_model_info(m) = None
    \/ _download_manager = None

start_download_rejects_unknown_only(m) ==
    \/ get_model_info(m) = None
    \/ _download_manager = None

\* the three early returns of start_download
start_download_rejects(m) ==
    \/ m \in DOMAIN _download_tasks
    \/ get_model_info(m) = None
    \/ _download_manager = None

\* what start_download returns: False on an early return, else True
start_download_returns(m) == ~start_download_rejects(m)

start_download(m) ==
    /\ IF start_download_rejects(m)
       THEN UNCHANGED <<_download_tasks, _download_progress, workers>>
       ELSE /\ Len(workers) < MaxStarts
            /\ _download_progress' =
                 [x \in DOMAIN _download_progress \cup {m} |->
                    IF x = m THEN NewProgress(m) ELSE _download_progress[x]]
            /\ workers' = Append(workers, NewWorker(m))
            /\ _download_tasks' =
                 [x \in DOMAIN _download_tasks \cup {m} |->
                    IF x = m THEN Len(workers) + 1 ELSE _download_tasks[x]]
    /\ UNCHANGED <<_download_manager, uiQueue, manager_cancelled, callers, env>>

worker_cancel_all(ws, w) ==
    [i \in DOMAIN ws |-> [ws[i] EXCEPT !.is_cancelled = TRUE]]

\* ModelDownloadWorker.cancel: the flag, then the forward to the manager
worker_cancel(ws, w) == [ws EXCEPT ![w].is_cancelled = TRUE]
forwarded_cancel_dropped(mc, m) == mc
forwarded_cancel(mc, m) ==
    IF m \in model_type_map /\ _download_manager # None THEN mc \cup {m} ELSE mc

\* what cancel_download returns: False without a task for m, else True
cancel_download_returns(m) == m \in DOMAIN _download_tasks

cancel_download(m) ==
    /\ IF m \notin DOMAIN _download_tasks
       THEN UNCHANGED <<_download_progress, workers, manager_cancelled>>
       ELSE /\ workers' = worker_cancel(workers, _download_tasks[m])
            /\ manager_cancelled' = forwarded_cancel(manager_cancelled, m)
            /\ _download_progress' =
                 IF m \in DOMAIN _download_progress
                 THEN [_download_progress EXCEPT
                         ![m].is_downloading = FALSE,
                         ![m].status_text = "Cancelling..."]
                 ELSE _download_progress
    /\ UNCHANGED <<_download_manager, _download_tasks, uiQueue, callers, env>>

\* ------------------------------------------- service slots (UI thread)
progress_after_swapped_fields(p, msg) ==
    [p EXCEPT !.current = msg.percentage, !.total = msg.total,
              !.percentage = msg.current]

progress_after_marks_downloading(p, msg) ==
    [p EXCEPT !.current = msg.current, !.total = msg.total,
              !.percentage = msg.percentage, !.is_downloading = TRUE]

\* _on_download_progress: the record's counters follow the notification
progress_after(p, msg) ==
    [p EXCEPT !.current = msg.current, !.total = msg.total,
              !.percentage = msg.percentage]

_on_download_progress ==
    /\ uiQueue # << >>
    /\ Head(uiQueue).kind = "progress"
    /\ LET msg == Head(uiQueue)
           m == msg.model_id
       IN /\ _download_progress' =
                IF m \in DOMAIN _download_progress
                THEN [_download_progress EXCEPT ![m] = progress_after(@, msg)]
                ELSE _download_progress
    /\ uiQueue' = Tail(uiQueue)
    /\ UNCHANGED <<_download_manager, _download_tasks, workers,
                   manager_cancelled, callers, env>>

finished_after_keeps_downloading(p, msg) ==
    IF msg.success
    THEN [p EXCEPT !.percentage = 100, !.status_text = "Download complete"]
    ELSE [p EXCEPT !.error_message = msg.text,
                   !.status_text = "Error: " \o msg.text]

finished_after_keeps_percentage(p, msg) ==
    IF msg.success
    THEN [p EXCEPT !.is_downloading = FALSE,
                   !.status_text = "Download complete"]
    ELSE [p EXCEPT !.is_downloading = FALSE, !.error_message = msg.text,
                   !.status_text = "Error: " \o msg.text]

\* _on_download_finished, lines 391-401: the record after a terminal notification
finished_after(p, msg) ==
    IF msg.success
    THEN [p EXCEPT !.is_downloading = FALSE, !.percentage = 100,
                   !.status_text = "Download complete"]
    ELSE [p EXCEPT !.is_downloading = FALSE, !.error_message = msg.text,
                   !.status_text = "Error: " \o msg.text]

\* lines 403-407: worker.wait(5000) returns when the QThread has ended or
\* after five seconds; either way the entry is deleted
_on_download_finished ==
    /\ uiQueue # << >>
    /\ Head(uiQueue).kind = "finished"
    /\ LET msg == Head(uiQueue)
           m == msg.model_id
       IN /\ _download_progress' =
                IF m \in DOMAIN _download_progress
                THEN [_download_progress EXCEPT ![m] = finished_after(@, msg)]
                ELSE _download_progress
          /\ _download_tasks' =
                [x \in DOMAIN _download_tasks \ {m} |-> _download_tasks[x]]
          /\ workers' =
                IF m \in DOMAIN _download_tasks
                THEN [workers EXCEPT ![_download_tasks[m]] = Released(@)]
                ELSE workers
    /\ uiQueue' = Tail(uiQueue)
    /\ UNCHANGED <<_download_manager, manager_cancelled, callers, env>>

_on_download_status_update ==
    /\ uiQueue # << >>
    /\ Head(uiQueue).kind = "status_update"
    /\ LET msg == Head(uiQueue)
           m == msg.model_id
       IN /\ _download_progress' =
                IF m \in DOMAIN _download_progress
                THEN [_download_progress EXCEPT ![m].status_text = msg.text]
                ELSE _download_progress
    /\ uiQueue' = Tail(uiQueue)
    /\ UNCHANGED <<_download_manager, _download_tasks, workers,
                   manager_cancelled, callers, env>>

\* --------------------------------------------- ModelDownloadWorker.run
WorkerVarsUnchanged ==
    UNCHANGED <<_download_manager, _download_tasks, _download_progress,
                manager_cancelled, callers, env>>

ExceptionMsgs_status_only(w, e) == <<StatusMsg(w, "Error: " \o e)>>

\* the notifications of the except branch of run
ExceptionMsgs(w, e) == <<FinishedMsg(w, FALSE, e), StatusMsg(w, "Error: " \o e)>>

\* run, lines 44-66, and _download_with_progress up to thread.start()
WorkerBegin(w) ==
    /\ workers[w].pc = "start"
    /\ IF workers[w].model_id \in model_type_map
       THEN LET msgs == <<StatusMsg(w, "Initializing download..."),
                          StatusMsg(w, "Connecting to server...")>>
            IN /\ HasRoom(msgs)
               /\ uiQueue' = uiQueue \o msgs
               /\ workers' = [workers EXCEPT ![w].pc = "loop",
                                             ![w].current_fake_progress = 0,
                                             ![w].thread = "running"]
       ELSE LET msgs == <<StatusMsg(w, "Initializing download...")>>
                          \o ExceptionMsgs(w, "Unknown model type")
            IN /\ HasRoom(msgs)
               /\ uiQueue' = uiQueue \o msgs
               /\ workers' = [workers EXCEPT ![w].pc = "done",
                                             ![w].finished_sent = TRUE]
    /\ WorkerVarsUnchanged

loop_continues_ignores_cancel(wr) == wr.thread # "done"

\* the loop condition, line 203, and poll_count += 1
loop_continues(wr) == wr.thread # "done" /\ ~wr.is_cancelled

WorkerLoopCheck(w) ==
    /\ workers[w].pc = "loop"
    /\ workers' =
         IF loop_continues(workers[w])
         THEN [workers EXCEPT ![w].pc = "body",
                              ![w].poll_count = @ + 1]
         ELSE [workers EXCEPT ![w].pc = "after"]
    /\ UNCHANGED uiQueue
    /\ WorkerVarsUnchanged

FakeOutcomes_uncapped(wr) ==
    {[fake |-> wr.current_fake_progress, emit |-> FALSE]} \cup
    (IF wr.current_fake_progress >= 90 THEN {}
     ELSE {[fake |-> wr.current_fake_progress + inc, emit |-> TRUE] :
             inc \in FakeIncrements})

\* _update_fake_progress: nothing at or above 90 or before 500 ms have passed,
\* else one increment, capped at 90, and a progress notification
FakeOutcomes(wr) ==
    {[fake |-> wr.current_fake_progress, emit |-> FALSE]} \cup
    (IF wr.current_fake_progress >= 90 THEN {}
     ELSE {[fake |-> Min(90, wr.current_fake_progress + inc), emit |-> TRUE] :
             inc \in FakeIncrements})

FakeMsgs(w, f) ==
    IF f.emit THEN <<ProgressMsg(w, f.fake * TenMiB, fake_total, f.fake)>>
    ELSE << >>

\* lines 210-225: real progress replaces the simulated one when it is larger
RealMsgs(w, fake, real) ==
    IF real > fake THEN <<ProgressMsg(w, real * TenMiB, fake_total, real)>>
    ELSE << >>

\* after the wait of line 228: the timeout check of lines 231-233
poll_timed_out(wr) == wr.poll_count >= max_polls

\* one iteration of the polling loop, lines 206-233
WorkerPollBody(w) ==
    /\ workers[w].pc = "body"
    /\ \E f \in FakeOutcomes(workers[w]) :
         \/ \* get_download_status returns None or a status without progress
            /\ HasRoom(FakeMsgs(w, f))
            /\ uiQueue' = uiQueue \o FakeMsgs(w, f)
            /\ workers' = [workers EXCEPT
                 ![w].current_fake_progress = f.fake,
                 ![w].pc = IF poll_timed_out(workers[w]) THEN "after" ELSE "loop"]
         \/ \* get_download_status returns a status with progress
            \E real \in StatusProgress :
              LET msgs == FakeMsgs(w, f) \o RealMsgs(w, f.fake, real)
              IN /\ HasRoom(msgs)
                 /\ uiQueue' = uiQueue \o msgs
                 /\ workers' = [workers EXCEPT
                      ![w].current_fake_progress =
                          IF real > f.fake THEN real ELSE f.fake,
                      ![w].pc = IF poll_timed_out(workers[w])
                                THEN "after" ELSE "loop"]
         \/ \* get_download_status raises: out of the loop, to run's except
            LET msgs == FakeMsgs(w, f) \o ExceptionMsgs(w, StatusError)
            IN /\ HasRoom(msgs)
               /\ uiQueue' = uiQueue \o msgs
               /\ workers' = [workers EXCEPT
                    ![w] = Returned([@ EXCEPT !.current_fake_progress = f.fake,
                                              !.pc = "done",
                                              !.finished_sent = TRUE])]
    /\ WorkerVarsUnchanged

\* lines 235-240: the flag is read again after the loop
WorkerAfterLoop(w) ==
    /\ workers[w].pc = "after"
    /\ LET msgs == IF workers[w].is_cancelled
                   THEN <<StatusMsg(w, "Cancelling...")>> ELSE << >>
       IN /\ HasRoom(msgs)
          /\ uiQueue' = uiQueue \o msgs
    /\ workers' = [workers EXCEPT ![w].pc = "join",
                                  ![w].user_cancelled = workers[w].is_cancelled]
    /\ WorkerVarsUnchanged

\* lines 243-257: thread.join(timeout=5.0) returns with the thread ended or
\* still running; download_result is read as it is then
WorkerJoin(w) ==
    /\ workers[w].pc = "join"
    /\ LET res == workers[w].download_result
           msgs == IF res.success /\ workers[w].user_cancelled
                   THEN <<StatusMsg(w, "Download completed")>> ELSE << >>
       IN /\ HasRoom(msgs)
          /\ uiQueue' = uiQueue \o msgs
          /\ workers' = [workers EXCEPT
               ![w] = Returned([@ EXCEPT
                         !.pc = "result",
                         !.success = res.success,
                         !.download_error =
                             IF res.success THEN None ELSE res.error])]
    /\ WorkerVarsUnchanged

ResultMsgs_silent_failure(w, wr) ==
    IF wr.success
    THEN <<ProgressMsg(w, 100, 100, 100), FinishedMsg(w, TRUE, ""),
           StatusMsg(w, "Download complete")>>
    ELSE IF wr.is_cancelled
    THEN <<FinishedMsg(w, FALSE, "Download cancelled")>>
    ELSE << >>

ResultMsgs_always_success(w, wr) ==
    <<ProgressMsg(w, 100, 100, 100), FinishedMsg(w, TRUE, ""),
      StatusMsg(w, "Download complete")>>

ResultMsgs_success_unless_cancelled(w, wr) ==
    IF ~wr.is_cancelled
    THEN <<ProgressMsg(w, 100, 100, 100), FinishedMsg(w, TRUE, ""),
           StatusMsg(w, "Download complete")>>
    ELSE <<FinishedMsg(w, FALSE, "Download cancelled")>>

\* run, lines 71-86: the notifications that end the attempt
ResultMsgs(w, wr) ==
    IF wr.success
    THEN <<ProgressMsg(w, 100, 100, 100), FinishedMsg(w, TRUE, ""),
           StatusMsg(w, "Download complete")>>
    ELSE IF wr.is_cancelled
    THEN <<FinishedMsg(w, FALSE, "Download cancelled")>>
    ELSE <<FinishedMsg(w, FALSE, IF wr.download_error # None
                                 THEN wr.download_error ELSE "Download failed")>>

WorkerResult(w) ==
    /\ workers[w].pc = "result"
    /\ HasRoom(ResultMsgs(w, workers[w]))
    /\ uiQueue' = uiQueue \o ResultMsgs(w, workers[w])
    /\ workers' = [workers EXCEPT ![w].pc = "done", ![w].finished_sent = TRUE]
    /\ WorkerVarsUnchanged

\* ------------------------- download_thread, lines 172-193 (background)
\* what download_result holds once download_model has returned or raised
ThreadResults(m) ==
    {[success |-> TRUE, error |-> None], [success |-> FALSE, error |-> None]}
    \cup {[success |-> FALSE, error |-> e] : e \in DownloadErrors}
    \cup (IF m \in manager_cancelled
          THEN {[success |-> FALSE, error |-> "Cancelled"]} ELSE {})

\* the finished notification of worker w still awaits the service
FinishedQueued(w) ==
    \E i \in DOMAIN uiQueue :
        uiQueue[i].kind = "finished" /\ uiQueue[i].worker = w

\* download_result is written whenever the thread ends; once the service has
\* dropped the worker nothing can tell what was written
DownloadThreadEnds(w) ==
    /\ workers[w].thread = "running"
    /\ \E res \in ThreadResults(workers[w].model_id) :
         workers' = [workers EXCEPT
                       ![w].thread = "done",
                       ![w].download_result =
                           IF workers[w].pc = "done" /\ ~FinishedQueued(w)
                           THEN @ ELSE res]
    /\ UNCHANGED uiQueue
    /\ WorkerVarsUnchanged

\* ------------------------------- start_download, statement by statement
\* start_download as threads other than the UI thread execute it: one step
\* per statement that reads or writes the service's maps, interleaved under
\* the interpreter lock
Callers == 1..MaxCallers
IdleCaller == [pc |-> "idle", model_id |-> None, returned |-> FALSE]

CallerVarsUnchanged ==
    UNCHANGED <<_download_manager, uiQueue, manager_cancelled, env>>

\* a thread enters start_download(m)
CallStartDownload(t, m) ==
    /\ callers[t].pc = "idle"
    /\ callers' = [callers EXCEPT ![t].pc = "check", ![t].model_id = m]
    /\ UNCHANGED <<_download_tasks, _download_progress, workers>>
    /\ CallerVarsUnchanged

\* line 219: if model_id in self._download_tasks: return False
CheckRegistered(t) ==
    /\ callers[t].pc = "check"
    /\ callers' = [callers EXCEPT
                     ![t].pc = IF callers[t].model_id \in DOMAIN _download_tasks
                               THEN "returned" ELSE "validate"]
    /\ UNCHANGED <<_download_tasks, _download_progress, workers>>
    /\ CallerVarsUnchanged

\* lines 223-232: unknown model or no download manager: return False
CheckModelAndManager(t) ==
    /\ callers[t].pc = "validate"
    /\ callers' = [callers EXCEPT
                     ![t].pc = IF \/ get_model_info(callers[t].model_id) = None
                                  \/ _download_manager = None
                               THEN "returned" ELSE "progress"]
    /\ UNCHANGED <<_download_tasks, _download_progress, workers>>
    /\ CallerVarsUnchanged

\* lines 235-240: with self._progress_lock: the fresh progress record
CreateProgressRecord(t) ==
    /\ callers[t].pc = "progress"
    /\ LET m == callers[t].model_id
       IN _download_progress' =
            [x \in DOMAIN _download_progress \cup {m} |->
               IF x = m THEN NewProgress(m) ELSE _download_progress[x]]
    /\ callers' = [callers EXCEPT ![t].pc = "register"]
    /\ UNCHANGED <<_download_tasks, workers>>
    /\ CallerVarsUnchanged

\* lines 243-258: the worker is created, connected and registered
RegisterWorker(t) ==
    /\ callers[t].pc = "register"
    /\ LET m == callers[t].model_id
       IN /\ workers' = Append(workers, NewWorker(m))
          /\ _download_tasks' =
               [x \in DOMAIN _download_tasks \cup {m} |->
                  IF x = m THEN Len(workers) + 1 ELSE _download_tasks[x]]
    /\ callers' = [callers EXCEPT ![t].pc = "start"]
    /\ UNCHANGED _download_progress
    /\ CallerVarsUnchanged

\* lines 261-264: worker.start(); return True
StartWorkerAndReturn(t) ==
    /\ callers[t].pc = "start"
    /\ callers' = [callers EXCEPT ![t].pc = "returned", ![t].returned = TRUE]
    /\ UNCHANGED <<_download_tasks, _download_progress, workers>>
    /\ CallerVarsUnchanged

\* ------------------------------------- model status on disk, the facade
\* what a model's directory holds: nothing, some of the required files, all
DiskStates == {"absent", "partial", "complete"}
\* path managers handed to set_path_manager: one that answers, one whose
\* methods raise
PathManagers == {"set", "failing"}

\* the outcome of a piece of code: a value, or an exception on its way up
Ok(v) == [raised |-> FALSE, value |-> v]
Raise == [raised |-> TRUE, value |-> None]

no_try(r, on_exception) == r

\* try: ... except Exception: return on_exception
try_except(r, on_exception) == IF r.raised THEN Ok(on_exception) ELSE r

\* the keys of path_checks among the ids callers pass
path_checks == available_models

\* path_manager.check_cosyvoice3_model_integrity(model_path)[0]
check_cosyvoice3_model_integrity(m) == disk[m] = "complete"

\* os.path.exists(model_path)
path_exists(m) == disk[m] # "absent"

\* check_model_status, lines 173-201: the body of the try
check_model_status_body(m) ==
    IF _path_manager = "failing" THEN Raise
    ELSE IF m \notin path_checks THEN Ok("not_downloaded")
    ELSE IF m = "cosyvoice3_2512"
    THEN (IF check_cosyvoice3_model_integrity(m)
          THEN Ok("downloaded") ELSE Ok("not_downloaded"))
    ELSE IF path_exists(m) THEN Ok("downloaded") ELSE Ok("not_downloaded")

check_model_status(m) ==
    IF _path_manager = None THEN Ok("not_downloaded")
    ELSE try_except(check_model_status_body(m), "error")

get_downloaded_models ==
    Ok({m \in available_models : check_model_status(m) = Ok("downloaded")})

\* cleanup_cache: False without a manager, else the manager's cleanup in a try
cleanup_cache(cleanup) ==
    IF _download_manager = None THEN Ok(FALSE)
    ELSE try_except(IF cleanup.raised THEN Raise ELSE Ok(TRUE), FALSE)

Returned_from(op, m, r, failed) ==
    [op |-> op, model_id |-> m, raised |-> r.raised, value |-> r.value,
     failure |-> failed]
NoReturn == Returned_from(None, None, Ok(None), FALSE)

FacadeVarsUnchanged ==
    UNCHANGED <<_download_manager, _download_tasks, _download_progress,
                workers, uiQueue, manager_cancelled, callers>>

set_path_manager(pm) ==
    /\ _path_manager' = pm
    /\ UNCHANGED <<disk, last_return>>
    /\ FacadeVarsUnchanged

call_check_model_status(m) ==
    /\ last_return' = Returned_from("check_model_status", m,
                                     check_model_status(m),
                                     _path_manager = "failing")
    /\ UNCHANGED <<_path_manager, disk>>
    /\ FacadeVarsUnchanged

call_get_downloaded_models ==
    /\ last_return' = Returned_from("get_downloaded_models", None,
                                     get_downloaded_models, FALSE)
    /\ UNCHANGED <<_path_manager, disk>>
    /\ FacadeVarsUnchanged

call_cleanup_cache ==
    /\ \E cleanup \in {Ok(None), Raise} :
         last_return' = Returned_from("cleanup_cache", None,
                                      cleanup_cache(cleanup),
                                      _download_manager # None /\ cleanup.raised)
    /\ UNCHANGED <<_path_manager, disk>>
    /\ FacadeVarsUnchanged

call_get_download_progress(m) ==
    /\ last_return' = Returned_from("get_download_progress", m,
                                     try_except(Ok(get_download_progress(m)),
                                                None), FALSE)
    /\ UNCHANGED <<_path_manager, disk>>
    /\ FacadeVarsUnchanged

\* start_download, lines 266-272: creating or starting the worker raises.
\* The record is deleted; a worker whose start() raised stays registered.
start_download_fails(m) ==
    /\ ~start_download_rejects(m)
    /\ Len(workers) < MaxStarts
    /\ _download_progress' =
         [x \in DOMAIN _download_progress \ {m} |-> _download_progress[x]]
    /\ \/ UNCHANGED <<workers, _download_tasks>>
       \/ /\ workers' = Append(workers, [NewWorker(m) EXCEPT !.pc = "unstarted"])
          /\ _download_tasks' =
               [x \in DOMAIN _download_tasks \cup {m} |->
                  IF x = m THEN Len(workers) + 1 ELSE _download_tasks[x]]
    /\ last_return' = Returned_from("start_download", m,
                                     try_except(Raise, FALSE), TRUE)
    /\ UNCHANGED <<_download_manager, uiQueue, manager_cancelled, callers,
                   _path_manager, disk>>

\* ModelDownloadController._on_delete_requested, confirmed by the user: the
\* service has no delete_model, the attribute lookup raises and the
\* controller's except shows the error box
_on_delete_requested(m) ==
    /\ last_return' = Returned_from("delete_model", m, Raise, TRUE)
    /\ UNCHANGED <<_path_manager, disk>>
    /\ FacadeVarsUnchanged

\* get_available_models: the catalog in the order of the list
catalog == <<"cosyvoice3_2512", "cosyvoice2">>

\* Python values of two types: a str, and a member of the plain Enum
\* ModelDownloadStatus, named by its value
PyStr(s) == [type |-> "str", v |-> s]
ModelDownloadStatus(v) == [type |-> "ModelDownloadStatus", v |-> v]

\* a != b: a member of a plain Enum equals itself only, never a str
py_ne(a, b) == a # b

\* _on_download_all_clicked, lines 263-267: the ids whose status != "downloaded"
not_downloaded ==
    SelectSeq(catalog,
              LAMBDA m : py_ne(ModelDownloadStatus(check_model_status(m).value),
                               PyStr("downloaded")))

\* lines 282-283: _on_download_requested for each id in turn, each a
\* start_download on the maps the earlier ones left
RECURSIVE requested_each(_, _)
requested_each(st, ids) ==
    IF ids = << >> THEN st
    ELSE LET m == Head(ids)
             rejects == \/ m \in DOMAIN st.tasks
                        \/ get_model_info(m) = None
                        \/ _download_manager = None
             started ==
                 [tasks |-> [x \in DOMAIN st.tasks \cup {m} |->
                               IF x = m THEN Len(st.workers) + 1
                               ELSE st.tasks[x]],
                  progress |-> [x \in DOMAIN st.progress \cup {m} |->
                                  IF x = m THEN NewProgress(m)
                                  ELSE st.progress[x]],
                  workers |-> Append(st.workers, NewWorker(m))]
         IN requested_each(IF rejects THEN st ELSE started, Tail(ids))

\* what 'Download All' did: the op, for all models, and the ids requested
AllModels == "all"
DownloadAllOps == {"download_all", "download_all_info", "download_all_declined"}

\* ModelDownloadController._on_download_all_clicked
_on_download_all_clicked ==
    /\ IF not_downloaded = << >>
       THEN /\ last_return' = Returned_from("download_all_info", AllModels,
                                             Ok({}), FALSE)
            /\ UNCHANGED <<_download_tasks, _download_progress, workers>>
       ELSE \/ \* the user declines
               /\ last_return' = Returned_from("download_all_declined", AllModels,
                                                Ok({}), FALSE)
               /\ UNCHANGED <<_download_tasks, _download_progress, workers>>
            \/ \* the user confirms
               LET st == requested_each([tasks |-> _download_tasks,
                                         progress |-> _download_progress,
                                         workers |-> workers], not_downloaded)
               IN /\ Len(st.workers) <= MaxStarts
                  /\ _download_tasks' = st.tasks
                  /\ _download_progress' = st.progress
                  /\ workers' = st.workers
                  /\ last_return' =
                       Returned_from("download_all", AllModels,
                                     Ok({not_downloaded[i] :
                                           i \in DOMAIN not_downloaded}), FALSE)
    /\ UNCHANGED <<_download_manager, uiQueue, manager_cancelled, callers,
                   _path_manager, disk>>

\* the download manager's transfer, as specified: files land under the
\* model's directory, the last one completes it, a cancel removes them
TransferWrites(w) ==
    /\ workers[w].thread = "running"
    /\ disk[workers[w].model_id] = "absent"
    /\ disk' = [disk EXCEPT ![workers[w].model_id] = "partial"]
    /\ UNCHANGED <<_path_manager, last_return>>
    /\ FacadeVarsUnchanged

TransferCompletes(w) ==
    /\ workers[w].thread = "running"
    /\ disk[workers[w].model_id] = "partial"
    /\ disk' = [disk EXCEPT ![workers[w].model_id] = "complete"]
    /\ UNCHANGED <<_path_manager, last_return>>
    /\ FacadeVarsUnchanged

TransferCleansUp(w) ==
    /\ workers[w].thread = "running"
    /\ workers[w].model_id \in manager_cancelled
    /\ disk[workers[w].model_id] = "partial"
    /\ disk' = [disk EXCEPT ![workers[w].model_id] = "absent"]
    /\ UNCHANGED <<_path_manager, last_return>>
    /\ FacadeVarsUnchanged

\* download_model returns success only once the integrity check has passed
VerifiedSuccess ==
    \A w \in DOMAIN workers :
        (/\ workers[w].thread = "running"
         /\ workers'[w].thread = "done"
         /\ workers'[w].download_result.success) =>
            disk[workers[w].model_id] = "complete"

\* ------------------------------------------------------ specification
InitSession ==
    /\ _download_manager = None
    /\ _download_tasks = [m \in {} |-> 0]
    /\ _download_progress = [m \in {} |-> NewProgress(m)]
    /\ workers = << >>
    /\ uiQueue = << >>
    /\ manager_cancelled = {}
    /\ callers = [t \in Callers |-> IdleCaller]

\* a fresh service on a machine without any model directory
Init ==
    /\ InitSession
    /\ _path_manager = None
    /\ disk = [m \in available_models |-> "absent"]
    /\ last_return = NoReturn

\* a fresh service on a machine with whatever earlier runs left on disk
InitFiles ==
    /\ InitSession
    /\ _path_manager = None
    /\ disk \in [available_models -> DiskStates]
    /\ last_return = NoReturn

\* a step leaves at most n sessions registered
ActiveBound(n) == Cardinality(DOMAIN _download_tasks') <= n

Next ==
    \/ set_download_manager
    \/ \E m \in ModelIds : start_download(m) /\ ActiveBound(MaxActive)
    \/ \E m \in ModelIds : cancel_download(m)
    \/ _on_download_progress
    \/ _on_download_finished
    \/ _on_download_status_update
    \/ \E w \in DOMAIN workers : WorkerBegin(w)
    \/ \E w \in DOMAIN workers : WorkerLoopCheck(w)
    \/ \E w \in DOMAIN workers : WorkerPollBody(w)
    \/ \E w \in DOMAIN workers : WorkerAfterLoop(w)
    \/ \E w \in DOMAIN workers : WorkerJoin(w)
    \/ \E w \in DOMAIN workers : WorkerResult(w)
    \/ \E w \in DOMAIN workers : DownloadThreadEnds(w)

Spec == Init /\ [][Next]_vars

\* start_download called from several threads at once
NextMT ==
    \/ set_download_manager
    \/ \E t \in Callers, m \in ModelIds : CallStartDownload(t, m)
    \/ \E t \in Callers : CheckRegistered(t)
    \/ \E t \in Callers : CheckModelAndManager(t)
    \/ \E t \in Callers : CreateProgressRecord(t)
    \/ \E t \in Callers : RegisterWorker(t)
    \/ \E t \in Callers : StartWorkerAndReturn(t)

SpecMT == Init /\ [][NextMT]_vars

\* one download session at a time, with the files it leaves on disk
SessionStep == Next /\ Len(workers') <= MaxFairStarts /\ VerifiedSuccess

NextFiles ==
    \/ SessionStep
    \/ \E pm \in PathManagers : set_path_manager(pm)
    \/ \E w \in DOMAIN workers : TransferWrites(w)
    \/ \E w \in DOMAIN workers : TransferCompletes(w)
    \/ \E w \in DOMAIN workers : TransferCleansUp(w)

SpecFiles == InitFiles /\ [][NextFiles]_vars

\* the operations of the service called one after another by the UI
NextFacade ==
    \/ set_download_manager
    \/ \E pm \in PathManagers : set_path_manager(pm)
    \/ \E m \in ModelIds : start_download(m)
    \/ \E m \in ModelIds : start_download_fails(m)
    \/ \E m \in ModelIds : cancel_download(m)
    \/ \E m \in ModelIds : call_check_model_status(m)
    \/ call_get_downloaded_models
    \/ call_cleanup_cache
    \/ \E m \in ModelIds : call_get_download_progress(m)
    \/ \E m \in available_models : _on_delete_requested(m)
    \/ _on_download_all_clicked

SpecFacade == InitFiles /\ [][NextFacade]_vars

\* the download sessions, with starts that fail on the way
NextService ==
    \/ Next
    \/ \E m \in ModelIds : start_download_fails(m) /\ ActiveBound(MaxActive)

SpecService == Init /\ [][NextService]_vars

\* downloads of different models side by side; the UI thread is quick: a
\* worker goes on once its earlier notifications have been handled
UiIdle == uiQueue = << >>

NextPair ==
    \/ set_download_manager
    \/ \E m \in ModelIds : start_download(m) /\ ActiveBound(MaxPairActive)
    \/ \E m \in ModelIds : cancel_download(m)
    \/ _on_download_progress
    \/ _on_download_finished
    \/ _on_download_status_update
    \/ \E w \in DOMAIN workers : UiIdle /\ WorkerBegin(w)
    \/ \E w \in DOMAIN workers : UiIdle /\ WorkerLoopCheck(w)
    \/ \E w \in DOMAIN workers : UiIdle /\ WorkerPollBody(w)
    \/ \E w \in DOMAIN workers : UiIdle /\ WorkerAfterLoop(w)
    \/ \E w \in DOMAIN workers : UiIdle /\ WorkerJoin(w)
    \/ \E w \in DOMAIN workers : UiIdle /\ WorkerResult(w)
    \/ \E w \in DOMAIN workers : UiIdle /\ DownloadThreadEnds(w)

SpecPair == Init /\ [][NextPair]_vars

\* the steps of worker w's QThread
WorkerStep(w) ==
    /\ w \in DOMAIN workers
    /\ \/ WorkerBegin(w)
       \/ WorkerLoopCheck(w)
       \/ WorkerPollBody(w)
       \/ WorkerAfterLoop(w)
       \/ WorkerJoin(w)
       \/ WorkerResult(w)

\* the UI event loop delivers the queued notification at the head
HandleNotification ==
    \/ _on_download_progress
    \/ _on_download_finished
    \/ _on_download_status_update

\* the behaviours with at most MaxFairStarts accepted start_download calls
NextFair == Next /\ Len(workers') <= MaxFairStarts

\* a started QThread keeps being scheduled and the UI event loop keeps
\* running; nothing is assumed of download_model, which may never return
FairSpec ==
    /\ Init /\ [][NextFair]_vars
    /\ \A w \in 1..MaxFairStarts : WF_vars(WorkerStep(w))
    /\ WF_vars(HandleNotification)

\* ------------------------------------------------------------ claims
\* the session of worker w is open: its run has not ended, or its finished
\* notification still awaits the service
SessionOpen(w) ==
    \/ workers[w].pc # "done"
    \/ \E i \in DOMAIN uiQueue :
         uiQueue[i].kind = "finished" /\ uiQueue[i].worker = w

OpenSessions(m) ==
    {w \in DOMAIN workers : workers[w].model_id = m /\ SessionOpen(w)}

\* C1: for every model id at most one download session is open at any time,
\* it is the one the task map registers, and while it is open start_download
\* for that id returns False
C1_AtMostOneSession ==
    \A m \in ModelIds :
        /\ Cardinality(OpenSessions(m)) <= 1
        /\ OpenSessions(m) =
             (IF m \in DOMAIN _download_tasks THEN {_download_tasks[m]} ELSE {})
        /\ OpenSessions(m) # {} => ~start_download_returns(m)

\* a second attempt for a model is registered after its first one has ended
C1_Witness ==
    \E m \in DOMAIN _download_tasks :
        /\ _download_tasks[m] = 2
        /\ workers[1].model_id = m
        /\ ~SessionOpen(1)

StartAccepted(m) ==
    /\ workers' = Append(workers, NewWorker(m))
    /\ DOMAIN _download_tasks' = DOMAIN _download_tasks \cup {m}
    /\ _download_tasks'[m] = Len(workers')
    /\ \A x \in DOMAIN _download_tasks : _download_tasks'[x] = _download_tasks[x]
    /\ DOMAIN _download_progress' = DOMAIN _download_progress \cup {m}
    /\ _download_progress'[m].is_downloading
    /\ _download_progress'[m].current = 0
    /\ _download_progress'[m].total = 0
    /\ _download_progress'[m].percentage = 0
    /\ _download_progress'[m].error_message = ""
    /\ \A x \in DOMAIN _download_progress \ {m} :
         _download_progress'[x] = _download_progress[x]

C3_NoConcurrentTransfers ==
    \A m \in ModelIds :
        Cardinality({w \in DOMAIN workers :
                       workers[w].model_id = m /\ workers[w].thread = "running"}) <= 1

\* C4: of two threads that call start_download for the same model id at the
\* same time exactly one returns True; they never both do
C4_ExactlyOneStartSucceeds ==
    \A t1, t2 \in Callers :
        (/\ t1 # t2
         /\ callers[t1].pc = "returned"
         /\ callers[t2].pc = "returned"
         /\ callers[t1].model_id = callers[t2].model_id)
            => ~(callers[t1].returned /\ callers[t2].returned)

\* C5: cancel_download returns False and changes nothing without an open
\* session for the id; with one it sets that worker's cancellation flag,
\* forwards the cancel to the download manager for the id, and returns True
C5_CancelDownloadContract ==
    /\ [](\A m \in ModelIds : cancel_download_returns(m) <=> OpenSessions(m) # {})
    /\ [][\A m \in ModelIds :
            cancel_download(m) =>
                IF cancel_download_returns(m)
                THEN /\ workers'[_download_tasks[m]].is_cancelled
                     /\ m \in manager_cancelled'
                     /\ UNCHANGED _download_tasks
                ELSE UNCHANGED vars]_vars

\* a cancelled session: the flag is set and the manager has been told
C5_Witness ==
    \E m \in DOMAIN _download_tasks :
        /\ workers[_download_tasks[m]].is_cancelled
        /\ m \in manager_cancelled
        /\ _download_progress[m].status_text = "Cancelling..."

\* the notifications a step appends to the UI queue
NewMsgs == SubSeq(uiQueue', Len(uiQueue) + 1, Len(uiQueue'))

\* while a cancelled session is open its record is not marked downloading
CancelledNotDownloading ==
    \A m \in DOMAIN _download_tasks :
        workers[_download_tasks[m]].is_cancelled =>
            ~get_download_progress(m).is_downloading

\* _download_with_progress returns True only from a join that found
\* download_result["success"] set by the ended download thread
SuccessOnlyFromDownload ==
    \A w \in DOMAIN workers :
        (~workers[w].success /\ workers'[w].success) =>
            workers[w].thread = "done" /\ workers[w].download_result.success

\* a record that is not downloading is marked downloading again only by an
\* accepted start_download for its model
DownloadingOnlyByStart ==
    \A m \in DOMAIN _download_progress' :
        (_download_progress'[m].is_downloading
            /\ ~get_download_progress(m).is_downloading) =>
                start_download(m) /\ start_download_returns(m)

CancelledOutcome(msg) ==
    msg.kind = "finished" /\ ~msg.success /\ msg.text = "Download cancelled"

\* C8: a cancelled attempt is not surfaced as an error: handling its terminal
\* notification leaves error_message empty and sets no error status
C8_CancelledIsNotAnError ==
    [][(_on_download_finished /\ CancelledOutcome(Head(uiQueue))) =>
         LET m == Head(uiQueue).model_id
         IN m \in DOMAIN _download_progress' =>
              /\ _download_progress'[m].error_message = ""
              /\ _download_progress'[m].status_text
                   # "Error: " \o Head(uiQueue).text]_vars

\* C9: under fair scheduling of the worker threads and of the UI event loop
\* every accepted start_download(m) is eventually followed by the handling
\* of the attempt's finished notification, after which the record is not
\* downloading and no worker is registered for m, whether download_model
\* returns, raises or never returns
C9_EveryStartFinishes ==
    \A m \in available_models :
        (m \in DOMAIN _download_tasks) ~>
            (/\ m \notin DOMAIN _download_tasks
             /\ m \in DOMAIN _download_progress
             /\ ~get_download_progress(m).is_downloading)

\* an attempt over and unregistered while its download_model call has
\* still not returned
C9_Witness ==
    \E w \in DOMAIN workers :
        /\ workers[w].pc = "done"
        /\ workers[w].thread = "running"
        /\ workers[w].model_id \notin DOMAIN _download_tasks
        /\ ~get_download_progress(workers[w].model_id).is_downloading
        /\ \A i \in DOMAIN uiQueue : uiQueue[i].worker # w

\* C10: the finished notification is the last one an attempt emits
C10_FinishedIsLast ==
    \A i, j \in DOMAIN uiQueue :
        (i < j /\ uiQueue[i].kind = "finished") =>
            uiQueue[j].worker # uiQueue[i].worker

\* C11: the current values of the progress notifications of an attempt that
\* completes successfully never decrease, and the last one equals its total
C11_MonotonicProgress ==
    [][/\ (/\ _on_download_progress
           /\ Head(uiQueue).model_id \in DOMAIN _download_progress
           /\ workers[Head(uiQueue).worker].success) =>
              Head(uiQueue).current
                >= _download_progress[Head(uiQueue).model_id].current
       /\ \A i \in (Len(uiQueue) + 1)..Len(uiQueue') :
            (uiQueue'[i].kind = "finished" /\ uiQueue'[i].success) =>
                /\ i - 1 > Len(uiQueue)
                /\ uiQueue'[i - 1].kind = "progress"
                /\ uiQueue'[i - 1].current = uiQueue'[i - 1].total]_vars

\* the session of m is over: a record exists and no worker is registered
SessionOver(m) ==
    m \in DOMAIN _download_progress /\ m \notin DOMAIN _download_tasks

NoProgressAfterFinished ==
    \A i, j \in DOMAIN uiQueue :
        (i < j /\ uiQueue[i].kind = "finished" /\ uiQueue[j].kind = "progress")
            => uiQueue[j].worker # uiQueue[i].worker

\* C19: every progress record and every queued progress notification carries
\* a percentage in 0..100; handling a success notification sets it to 100,
\* and it then changes only when a later start_download is accepted
C19_PercentageRange ==
    /\ [](\A m \in DOMAIN _download_progress :
            _download_progress[m].percentage \in 0..100)
    /\ [](\A i \in DOMAIN uiQueue :
            uiQueue[i].kind = "progress" => uiQueue[i].percentage \in 0..100)
    /\ []NoProgressAfterFinished
    /\ [][/\ (_on_download_finished /\ Head(uiQueue).success
                /\ Head(uiQueue).model_id \in DOMAIN _download_progress) =>
               _download_progress'[Head(uiQueue).model_id].percentage = 100
          /\ \A m \in ModelIds :
               (/\ SessionOver(m)
                /\ m \in DOMAIN _download_progress'
                /\ _download_progress'[m].percentage
                     # _download_progress[m].percentage) =>
                   start_download(m) /\ start_download_returns(m)]_vars

\* a closed session that ended in success
C19_Witness ==
    \E m \in DOMAIN _download_progress :
        /\ m \notin DOMAIN _download_tasks
        /\ _download_progress[m].percentage = 100
        /\ _download_progress[m].status_text = "Download complete"
        /\ uiQueue = << >>

\* C20: percentage 100 is reported only once download_model has returned
\* success; every percentage reported before that is below 100
C20_HundredOnlyOnCompletion ==
    [][\A i \in (Len(uiQueue) + 1)..Len(uiQueue') :
         (uiQueue'[i].kind = "progress" /\ uiQueue'[i].percentage = 100) =>
             workers[uiQueue'[i].worker].success]_vars

\* C18: when the transfer fails with error message e and the user has not
\* cancelled, the finished notification of the attempt carries exactly e,
\* and the record's error_message is e from its handling until the next
\* accepted start_download
C18_UnderlyingErrorPreserved ==
    /\ [](\A i \in DOMAIN uiQueue :
            LET wr == workers[uiQueue[i].worker]
            IN (/\ uiQueue[i].kind = "finished"
                /\ ~wr.is_cancelled
                /\ wr.thread = "done"
                /\ wr.download_result.error \in DownloadErrors) =>
                   /\ ~uiQueue[i].success
                   /\ uiQueue[i].text = wr.download_result.error)
    /\ [][/\ \A w \in DOMAIN workers :
               (/\ WorkerResult(w)
                /\ ~workers[w].is_cancelled
                /\ workers[w].download_error \in DownloadErrors) =>
                   NewMsgs = <<FinishedMsg(w, FALSE, workers[w].download_error)>>
          /\ \A m \in DOMAIN _download_progress :
               (/\ m \in DOMAIN _download_progress'
                /\ _download_progress'[m].error_message
                     # _download_progress[m].error_message) =>
                   \/ /\ _on_download_finished
                      /\ Head(uiQueue).model_id = m
                      /\ _download_progress'[m].error_message = Head(uiQueue).text
                   \/ start_download(m) /\ start_download_returns(m)]_vars

C14_DownloadedOnlyIfComplete ==
    \A m \in available_models :
        /\ check_model_status(m).value = "downloaded" => disk[m] = "complete"
        /\ m \in get_downloaded_models.value => disk[m] = "complete"

\* C15: while a session for m is registered check_model_status(m) returns
\* Downloading
C15_DownloadingWhileActive ==
    \A m \in DOMAIN _download_tasks :
        check_model_status(m).value = "downloading"

\* C16: the delete operation returns False and removes nothing while a
\* download for the model is active; otherwise it removes the model's
\* directory and returns True, and the model is then NotDownloaded
C16_DeleteContract ==
    [][\A m \in available_models :
         _on_delete_requested(m) =>
            IF m \in DOMAIN _download_tasks
            THEN /\ ~last_return'.raised
                 /\ last_return'.value = FALSE
                 /\ disk' = disk
            ELSE /\ ~last_return'.raised
                 /\ last_return'.value = TRUE
                 /\ disk'[m] = "absent"]_vars

\* the operations whose callers expect no exception
FacadeOps ==
    {"start_download", "cancel_download", "get_download_progress",
     "check_model_status", "get_downloaded_models", "cleanup_cache"}

\* C17: no call of a facade operation raises to its caller: a failure of the
\* path manager is returned as the Error status, a failure of the manager's
\* cleanup or of the worker's creation as False
C17_NoExceptionCrossesFacade ==
    last_return.op \in FacadeOps =>
        /\ ~last_return.raised
        /\ (last_return.failure /\ last_return.op = "check_model_status")
              => last_return.value = "error"
        /\ (last_return.failure
              /\ last_return.op \in {"cleanup_cache", "start_download"})
              => last_return.value = FALSE

\* check_model_status called with a path manager whose methods raise
C17_Witness ==
    /\ last_return.op = "check_model_status"
    /\ last_return.failure
    /\ ~last_return.raised
    /\ _path_manager = "failing"

\* C21: the worker entry for m is removed from the task map, which makes m
\* startable again, only after the background transfer thread of that
\* attempt has ended
C21_UnregisteredAfterThreadEnds ==
    [][\A m \in DOMAIN _download_tasks :
         m \notin DOMAIN _download_tasks' =>
             workers[_download_tasks[m]].thread = "done"]_vars

\* worker w is the one the task map holds for its model id
Registered(w) ==
    /\ workers[w].model_id \in DOMAIN _download_tasks
    /\ _download_tasks[workers[w].model_id] = w

\* the progress notifications of worker w among those a step appends
NewProgressOf(w) ==
    {i \in (Len(uiQueue) + 1)..Len(uiQueue') :
        uiQueue'[i].kind = "progress" /\ uiQueue'[i].worker = w}

\* the ways the run of a cancelled worker moves on: never back into the loop
CancelledMoves ==
    {<<"start", "loop">>, <<"loop", "after">>, <<"body", "loop">>,
     <<"body", "after">>, <<"body", "done">>, <<"after", "join">>,
     <<"join", "result">>, <<"result", "done">>}

\* the flag stays set and the run only moves towards its end
CancelSticks(w) ==
    (workers[w].is_cancelled /\ Registered(w)) =>
        /\ Registered(w)' => workers'[w].is_cancelled
        /\ workers'[w].pc # workers[w].pc =>
             <<workers[w].pc, workers'[w].pc>> \in CancelledMoves

\* C22 as claimed: after cancel has set the flag it is never cleared, the
\* polling loop begins no further iteration, and the only progress
\* notifications emitted are those of the iteration already in progress
C22_Original ==
    [][\A w \in DOMAIN workers :
         /\ CancelSticks(w)
         /\ (workers[w].is_cancelled /\ NewProgressOf(w) # {}) =>
               workers[w].pc = "body"]_vars

\* C22, amended: after cancel has set the flag it is never cleared and the
\* polling loop begins no further iteration; the progress notifications
\* emitted after the cancel are those of the iteration already in progress
\* and, when download_model returned success before the join ended, the
\* progress (100, 100, 100) that precedes the success notification; the run
\* then goes on to its terminal notification
C22_CancelStopsPolling ==
    [][\A w \in DOMAIN workers :
         /\ CancelSticks(w)
         /\ (workers[w].is_cancelled /\ NewProgressOf(w) # {}) =>
               \/ workers[w].pc = "body"
               \/ /\ workers[w].pc = "result"
                  /\ workers[w].success
                  /\ NewMsgs = <<ProgressMsg(w, 100, 100, 100),
                                 FinishedMsg(w, TRUE, ""),
                                 StatusMsg(w, "Download complete")>>]_vars

\* a worker cancelled after it had reported progress, its terminal
\* notification emitted and not yet handled
C22_Witness ==
    \E w \in DOMAIN workers :
        /\ workers[w].is_cancelled
        /\ workers[w].current_fake_progress > 0
        /\ workers[w].pc = "done"
        /\ Registered(w)
        /\ FinishedQueued(w)

\* the simulated progress emits nothing above 90
FakeCapped ==
    \A w \in DOMAIN workers :
        \A f \in FakeOutcomes(workers[w]) : f.emit => f.fake <= 90

\* the percentages a step emits for one worker continue from the worker's
\* last one and do not decrease
EmittedInOrder(w) ==
    \A i \in NewProgressOf(w) :
        /\ uiQueue'[i].percentage >= workers[w].current_fake_progress
        /\ \A j \in NewProgressOf(w) :
             i < j => uiQueue'[i].percentage <= uiQueue'[j].percentage

\* C23: within one attempt the percentages of successive progress
\* notifications never decrease, the simulated percentage never exceeds 90,
\* and a percentage above 90 comes only from the progress the download
\* manager reports or from the success of the attempt
C23_PercentageMonotoneFakeCapped ==
    /\ []FakeCapped
    /\ [][/\ (/\ _on_download_progress
              /\ Head(uiQueue).model_id \in DOMAIN _download_progress) =>
                 Head(uiQueue).percentage
                   >= _download_progress[Head(uiQueue).model_id].percentage
          /\ \A w \in DOMAIN workers :
               /\ EmittedInOrder(w)
               /\ \A i \in NewProgressOf(w) :
                    uiQueue'[i].percentage > 90 =>
                       \/ /\ workers[w].pc = "result"
                          /\ workers[w].success
                       \/ /\ workers[w].pc = "body"
                          /\ i = Len(uiQueue')
                          /\ uiQueue'[i].percentage \in StatusProgress
                          /\ uiQueue'[i].percentage
                               = workers'[w].current_fake_progress]_vars

\* real progress above 90 on its way to a record that shows less, the
\* attempt still running
C23_Witness ==
    \E i \in DOMAIN uiQueue :
        /\ uiQueue[i].kind = "progress"
        /\ uiQueue[i].percentage > 90
        /\ workers[uiQueue[i].worker].pc \in {"loop", "body"}
        /\ uiQueue[i].model_id \in DOMAIN _download_progress
        /\ _download_progress[uiQueue[i].model_id].percentage \in 1..90

\* C24: a worker cancelled before its run has started the background
\* transfer never invokes download_model for that attempt: its download
\* thread is never started, so no transfer of the cancelled attempt is left
\* running past its terminal notification
C24_NoTransferAfterEarlyCancel ==
    [][\A w \in DOMAIN workers :
         (workers[w].is_cancelled /\ workers[w].thread = "none") =>
             workers'[w].thread = "none"]_vars

\* the finished notifications of worker w among those a step appends
NewFinishedOf(w) ==
    {i \in (Len(uiQueue) + 1)..Len(uiQueue') :
        uiQueue'[i].kind = "finished" /\ uiQueue'[i].worker = w}

\* C25: each run of a download worker emits exactly one finished
\* notification: a run that has ended has emitted it, a run emits it once
\* and never again, whether it ends in success, failure, cancellation, a
\* polling timeout or an exception
C25_ExactlyOneFinished ==
    /\ [](\A w \in DOMAIN workers :
            /\ workers[w].pc = "done" <=> workers[w].finished_sent
            /\ Cardinality({i \in DOMAIN uiQueue :
                              /\ uiQueue[i].kind = "finished"
                              /\ uiQueue[i].worker = w}) <= 1)
    /\ [][\A w \in DOMAIN workers :
            /\ workers[w].finished_sent => workers'[w].finished_sent
            /\ Cardinality(NewFinishedOf(w)) =
                 (IF ~workers[w].finished_sent /\ workers'[w].finished_sent
                  THEN 1 ELSE 0)]_vars

\* a run that gave up polling: its one finished notification awaits the
\* service while download_model is still running
C25_Witness ==
    \E w \in DOMAIN workers :
        /\ workers[w].pc = "done"
        /\ workers[w].finished_sent
        /\ ~workers[w].is_cancelled
        /\ workers[w].thread = "running"
        /\ \E i \in DOMAIN uiQueue :
             /\ uiQueue[i].kind = "finished"
             /\ uiQueue[i].worker = w
             /\ uiQueue[i].text = "Download failed"

\* C26: when start_download(m) returns False because creating, registering
\* or starting the worker raised, the call leaves no worker registered for m
\* and no record that marks m as downloading, so that a later
\* start_download(m) is not rejected as already downloading
C26_FailedStartLeavesNothing ==
    [][\A m \in ModelIds :
         start_download_fails(m) =>
            /\ m \notin DOMAIN _download_tasks'
            /\ m \in DOMAIN _download_progress' =>
                 ~_download_progress'[m].is_downloading]_vars

\* C27: cancel_download(m) does not unregister the worker: from a successful
\* cancel until the service handles the finished notification of that
\* attempt, start_download(m) returns False and cancel_download(m) returns
\* True, although get_download_progress(m).is_downloading is already false
C27_CancelKeepsRegistration ==
    /\ [](\A m \in DOMAIN _download_tasks :
            workers[_download_tasks[m]].is_cancelled =>
               /\ ~start_download_returns(m)
               /\ cancel_download_returns(m)
               /\ ~get_download_progress(m).is_downloading)
    /\ [][\A m \in DOMAIN _download_tasks :
            /\ cancel_download(m) =>
                 /\ m \in DOMAIN _download_tasks'
                 /\ _download_tasks'[m] = _download_tasks[m]
                 /\ workers'[_download_tasks[m]].is_cancelled
            /\ (\/ m \notin DOMAIN _download_tasks'
                \/ _download_tasks'[m] # _download_tasks[m]) =>
                 /\ _on_download_finished
                 /\ Head(uiQueue).model_id = m
                 /\ Head(uiQueue).worker = _download_tasks[m]]_vars

\* a cancelled attempt waiting in its join: not downloading any more, yet
\* its model cannot be started
C27_Witness ==
    \E m \in DOMAIN _download_tasks :
        /\ workers[_download_tasks[m]].is_cancelled
        /\ workers[_download_tasks[m]].pc = "join"
        /\ ~get_download_progress(m).is_downloading
        /\ ~start_download_returns(m)
        /\ _download_manager # None

\* C28: between service operations a record with is_downloading set has a
\* worker registered for its model, so that start_download for that model
\* would be rejected
C28_DownloadingImpliesRegistered ==
    \A m \in DOMAIN _download_progress :
        _download_progress[m].is_downloading =>
            /\ m \in DOMAIN _download_tasks
            /\ ~start_download_returns(m)

\* a download in progress for one model after a start that failed
C28_Witness ==
    \E m \in DOMAIN _download_progress :
        /\ _download_progress[m].is_downloading
        /\ m \in DOMAIN _download_tasks
        /\ workers[_download_tasks[m]].pc = "body"
        /\ last_return.op = "start_download"
        /\ last_return.failure

\* what the service holds for model x is left as it was: its registration,
\* the registered worker and its progress record
SameFor(x) ==
    /\ (x \in DOMAIN _download_tasks) <=> (x \in DOMAIN _download_tasks')
    /\ x \in DOMAIN _download_tasks =>
         /\ _download_tasks'[x] = _download_tasks[x]
         /\ workers'[_download_tasks[x]] = workers[_download_tasks[x]]
    /\ (x \in DOMAIN _download_progress) <=> (x \in DOMAIN _download_progress')
    /\ x \in DOMAIN _download_progress =>
         _download_progress'[x] = _download_progress[x]

\* a service operation called for model m, or a notification for m handled
OperationFor(m) ==
    \/ start_download(m)
    \/ cancel_download(m)
    \/ HandleNotification /\ Head(uiQueue).model_id = m

C30_DownloadAllSkipsDownloaded ==
    [][(last_return'.op \in DownloadAllOps /\ _on_download_all_clicked) =>
         /\ last_return'.op = "download_all" =>
              \A m \in last_return'.value :
                  check_model_status(m).value # "downloaded"
         /\ (\A m \in available_models :
                 check_model_status(m).value = "downloaded") =>
              /\ last_return'.op = "download_all_info"
              /\ UNCHANGED <<_download_tasks, _download_progress, workers>>]_vars

====
